---- MODULE Spec2Model ----
(***************************************************************************)
(* Model of langchain/vectorstores/redis/redis.py: the Redis vector store   *)
(* wrapper (class Redis) together with the part of the Redis engine it      *)
(* talks to (hashes, search indexes, a non-transactional pipeline).         *)
(*                                                                          *)
(* Strings that the code builds with f-strings are modelled as sequences of *)
(* their parts: "doc:idx:u1" is <<"doc", "idx", "u1">>.                    *)
(***************************************************************************)
EXTENDS Integers, Sequences, FiniteSets, TLC

\* ------------------------------------------------------------------ bounds
MaxWork == 3       \* add_texts work in one behaviour: a call costs one plus its texts
MaxK == 1          \* searches ask for k in 0..MaxK
MaxCreators == 2   \* clients that run _create_index for one index name at a time

\* ------------------------------------------------------- program constants
DefaultDims == 1536

\* --------------------------------------------------------------- input sets
Dims == {2, 3}                          \* dim arguments of _create_index
BatchSizes == {1, 2}                    \* batch_size arguments of add_texts
QueryTexts == {"t1", "t2"}
Thresholds == {0, 1}                    \* score_threshold arguments
TextPool == <<"t1", "t2", "t3", "t4", "t5">>
UuidPool == <<"u1", "u2", "u3", "u4", "u5", "u6", "u7", "u8">>
KeyNamePool == <<"k1", "k2", "k3", "k4", "k5">>
IndexNames == {"idx", "nonexistent"}

NoIndex == [fields |-> <<>>, prefix |-> <<>>, index_type |-> "NONE"]
EmptyDict == [f \in {} |-> "x"]
Absent == [given |-> FALSE, val |-> <<>>]
Given(v) == [given |-> TRUE, val |-> v]
\* Python truthiness of an Optional[list]: None and [] are both falsy.
Truthy(opt) == opt.given /\ Len(opt.val) > 0

VARIABLES
    index_name, content_key, vector_key, metadata_keys,  \* instance fields
    distance_metric,   \* self._distance_metric
    other,             \* a second Redis instance constructed in the same process
    creators,          \* clients running _create_index concurrently: their positions
    created,           \* history: the definitions the engine installed for them
    vector_schema,     \* Redis._default_content_vector_schema (aliased by self._vector_schema)
    indexes,           \* engine: index name -> index definition (or NoIndex)
    store,             \* engine: key -> hash (field name -> value)
    pc,                \* "idle", "loop" while add_texts runs, "done" when an operation ended
    call,              \* arguments of the current / last add_texts call
    i,                 \* add_texts loop index
    ids,               \* add_texts' list of keys
    pipeline,          \* queued HSET commands
    uuid_ctr,          \* number of uuid4() values drawn so far
    work,              \* add_texts work done so far (calls plus texts)
    flushes,           \* history: pipeline.execute() calls of this add_texts call
    embedded,          \* history: items of this call passed to embedding_function
    commits,           \* history: HSETs of this call the engine has executed
    result             \* outcome of the last completed operation

vars == <<index_name, content_key, vector_key, metadata_keys, distance_metric,
          other, creators, created, vector_schema,
          indexes, store, pc, call, i, ids, pipeline, uuid_ctr, work,
          flushes, embedded, commits, result>>

instanceFields == <<index_name, content_key, vector_key, metadata_keys, distance_metric>>
others == <<other, creators, created>>
addLocals == <<call, i, ids, pipeline, flushes, embedded, commits>>
counters == <<uuid_ctr, work>>

\* ------------------------------------------------------------ pure helpers
\* _redis_prefix: f"doc:{index_name}"
RedisPrefix(name) == <<"doc", name>>

\* _redis_key: f"{prefix}:{uuid.uuid4().hex}", n being the number of the draw
RedisKey(prefix, n) == Append(prefix, UuidPool[n])

\* The embedding function handed to the constructor: text -> vector.  It is
\* deterministic and returns a unit vector of its own fixed length.
OneHot(pos, d) == [j \in 1..d |-> IF j = ((pos - 1) % d) + 1 THEN 1 ELSE 0]
TextNo(text) == CHOOSE n \in 1..Len(TextPool) : TextPool[n] = text
embedding_function(text) == OneHot(TextNo(text), 2)

\* array_to_buffer: np.array(v).astype(float32).tobytes(), 4 bytes an element
Float32Bytes(x) == IF x = 0 THEN <<0, 0, 0, 0>> ELSE <<0, 0, 128, 63>>
RECURSIVE array_to_buffer(_)
array_to_buffer(v) ==
    IF Len(v) = 0 THEN <<>> ELSE Float32Bytes(v[1]) \o array_to_buffer(Tail(v))

\* {a: x, **m}: the entries of m win over those of base
DictMerge(base, m) == m @@ base

\* --------------------------------------------------------- caller's inputs
Texts(n) == SubSeq(TextPool, 1, n)
\* caller-supplied keys: some carry the index prefix, some do not
SuppliedKey(n) ==
    IF n % 2 = 0 THEN <<"doc", "idx", KeyNamePool[n]>> ELSE <<KeyNamePool[n]>>
SuppliedKeys(m) == [n \in 1..m |-> SuppliedKey(n)]
SuppliedMetadata(n) == [tag |-> KeyNamePool[n]]
SuppliedMetadatas(m) == [n \in 1..m |-> SuppliedMetadata(n)]
SuppliedEmbeddings(m, d) == [n \in 1..m |-> OneHot(n, d)]

\* None, an empty list, a list as long as the texts, one shorter, one longer
Lengths(n) == {m \in {0, n - 1, n, n + 1} : m >= 0}
OptKeys(n) == {Absent} \cup {Given(SuppliedKeys(m)) : m \in Lengths(n) \ {n + 1}}
OptMetadatas(n) == {Absent} \cup {Given(SuppliedMetadatas(m)) : m \in Lengths(n)}
OptEmbeddings(n) == {Absent} \cup {Given(SuppliedEmbeddings(n, d)) : d \in {3}}

NoCall == [texts |-> <<>>, metadatas |-> Absent, embeddings |-> Absent,
           batch_size |-> 1, keys |-> Absent]
NoResult == [op |-> "none", status |-> "none"]

\* ------------------------------------------------------------ constructor
\* Redis.__init__: the instance fields, and the class-level default schema
\* updated in place with the vector_schema argument.
DefaultVectorSchema == [name |-> "content_vector", dims |-> DefaultDims,
                        distance_metric |-> "cosine", algorithm |-> "flat",
                        datatype |-> "float32"]

\* str.upper() on the metric names a schema may carry
Upper(metric) ==
    IF metric = "cosine" THEN "COSINE"
    ELSE IF metric = "l2" THEN "L2"
    ELSE IF metric = "ip" THEN "IP"
    ELSE metric

\* Lines 139-141: self._vector_schema is the class-level dict itself, updated
\* in place when the vector_schema argument is a dict.
UpdateSchema(schema, arg) == IF arg.given THEN DictMerge(schema, arg.val) ELSE schema

NoOther == [constructed |-> FALSE, distance_metric |-> "none"]
Creators == 1..MaxCreators
NoCreator == [pc |-> "start", def |-> NoIndex, exists |-> FALSE]

Configs == {
    [content_key |-> "content", vector_key |-> "content_vector",
     metadata_keys |-> <<>>, vector_schema |-> EmptyDict],
    [content_key |-> "body", vector_key |-> "vec",
     metadata_keys |-> <<"tag">>,
     vector_schema |-> [name |-> "vec", algorithm |-> "hnsw",
                        distance_metric |-> "l2"]] }

Init ==
    /\ \E c \in Configs :
        /\ content_key = c.content_key
        /\ vector_key = c.vector_key
        /\ metadata_keys = c.metadata_keys
        /\ vector_schema = UpdateSchema(DefaultVectorSchema, Given(c.vector_schema))
        /\ distance_metric = Upper(UpdateSchema(DefaultVectorSchema,
                                                Given(c.vector_schema)).distance_metric)
    /\ other = NoOther
    /\ creators = [p \in Creators |-> NoCreator]
    /\ created = <<>>
    /\ index_name = "idx"
    /\ indexes = [n \in IndexNames |-> NoIndex]
    /\ store = [k \in {} |-> EmptyDict]
    /\ pc = "idle"
    /\ call = NoCall
    /\ i = 0
    /\ ids = <<>>
    /\ pipeline = <<>>
    /\ uuid_ctr = 0
    /\ work = 0
    /\ flushes = <<>>
    /\ embedded = {}
    /\ commits = <<>>
    /\ result = NoResult

\* The caller takes the outcome of the finished operation and is ready for its
\* next call; the locals of the finished call (and the history kept beside
\* them) are gone.
NextCall ==
    /\ pc = "done"
    /\ pc' = "idle"
    /\ result' = NoResult
    /\ call' = NoCall
    /\ i' = 0
    /\ ids' = <<>>
    /\ pipeline' = <<>>
    /\ flushes' = <<>>
    /\ embedded' = {}
    /\ commits' = <<>>
    /\ UNCHANGED <<instanceFields, others, vector_schema, indexes, store, counters>>

\* ----------------------------------------------------------------- engine
\* check_index_exists(client, index_name)
check_index_exists(name) == indexes[name] # NoIndex

\* HSET key mapping: sets the given fields, keeps the hash's other fields
EngineHSet(st, cmd) ==
    [k \in DOMAIN st \cup {cmd.key} |->
        IF k = cmd.key
        THEN (IF k \in DOMAIN st THEN DictMerge(st[k], cmd.mapping) ELSE cmd.mapping)
        ELSE st[k]]

RECURSIVE EngineApply(_, _)
EngineApply(st, cmds) ==
    IF Len(cmds) = 0 THEN st ELSE EngineApply(EngineHSet(st, cmds[1]), Tail(cmds))

\* ----------------------------------------------------------- _create_index
\* The field list _create_index builds (lines 172-194).
VectorField(schema) ==
    [type |-> "VECTOR", name |-> schema.name,
     algorithm |-> (IF schema.algorithm = "flat" THEN "FLAT" ELSE "HNSW"),
     dims |-> schema.dims, distance_metric |-> schema.distance_metric,
     datatype |-> schema.datatype]

MetadataFields == [n \in 1..Len(metadata_keys) |-> [type |-> "TAG", name |-> metadata_keys[n]]]

IndexFields(schema) ==
    <<[type |-> "TEXT", name |-> content_key]>> \o <<VectorField(schema)>> \o MetadataFields

\* self._vector_schema["dims"] = dim (line 186), executed before the exists check
SetDims(schema, dim) == [schema EXCEPT !.dims = dim]

CreateIndex(dim) ==
    /\ pc = "idle"
    /\ LET schema == SetDims(vector_schema, dim)
           issue == ~check_index_exists(index_name)
           def == [fields |-> IndexFields(schema),
                   prefix |-> RedisPrefix(index_name), index_type |-> "HASH"]
       IN /\ vector_schema' = schema
          /\ indexes' = IF issue THEN [indexes EXCEPT ![index_name] = def] ELSE indexes
          /\ result' = [op |-> "create_index", status |-> "return",
                        dim |-> dim, issued |-> issue]
    /\ pc' = "done"
    /\ UNCHANGED <<instanceFields, others, store, addLocals, counters>>

\* ------------------------------------------ a second instance, same process
\* _select_relevance_score_fn (lines 152-164) with no relevance_score_fn given
SelectRelevanceScoreFn(metric) ==
    IF metric = "COSINE" THEN "_cosine_relevance_score_fn"
    ELSE IF metric = "IP" THEN "_max_inner_product_relevance_score_fn"
    ELSE IF metric = "L2" THEN "_euclidean_relevance_score_fn"
    ELSE "_default_relevance_score"

\* vector_schema arguments of the second constructor call
OtherSchemas == {Absent,
                 Given([distance_metric |-> "ip"]),
                 Given([distance_metric |-> "l2", algorithm |-> "hnsw"])}

\* Redis.__init__ of another instance (lines 139-149): its _vector_schema is the
\* same class-level dict, which it updates with its own argument.
ConstructOther(arg) ==
    /\ pc = "idle"
    /\ vector_schema' = UpdateSchema(vector_schema, arg)
    /\ other' = [constructed |-> TRUE,
                 distance_metric |-> Upper(UpdateSchema(vector_schema, arg).distance_metric)]
    /\ UNCHANGED <<instanceFields, creators, created, indexes, store, pc,
                   addLocals, counters, result>>

\* _create_index called on the other instance, which was constructed for the
\* same index name (lines 186 and 203-210)
OtherCreateIndex(dim) ==
    /\ pc = "idle"
    /\ other.constructed
    /\ vector_schema' = SetDims(vector_schema, dim)
    /\ indexes' = IF ~check_index_exists(index_name)
                  THEN [indexes EXCEPT ![index_name] =
                           [fields |-> IndexFields(SetDims(vector_schema, dim)),
                            prefix |-> RedisPrefix(index_name), index_type |-> "HASH"]]
                  ELSE indexes
    /\ UNCHANGED <<instanceFields, others, store, pc, addLocals, counters, result>>

\* ------------------------------------------- _create_index, run concurrently
\* Clients of one engine, each a process of its own with the constructor's
\* schema, run _create_index for the same index name.  A client's call is three
\* steps the engine may interleave with the other clients' steps: the field
\* list is built (lines 172-194), the engine is asked whether the index exists
\* (line 203), and the create request is sent (lines 207-210).
CreatorBuild(p, dim) ==
    /\ creators[p].pc = "start"
    /\ creators' = [creators EXCEPT ![p] =
            [pc |-> "built",
             def |-> [fields |-> IndexFields(SetDims(vector_schema, dim)),
                      prefix |-> RedisPrefix(index_name), index_type |-> "HASH"],
             exists |-> FALSE]]
    /\ UNCHANGED <<instanceFields, other, created, vector_schema, indexes, store, pc,
                   addLocals, counters, result>>

CreatorCheck(p) ==
    /\ creators[p].pc = "built"
    /\ creators' = [creators EXCEPT ![p].pc = "checked",
                                    ![p].exists = check_index_exists(index_name)]
    /\ UNCHANGED <<instanceFields, other, created, vector_schema, indexes, store, pc,
                   addLocals, counters, result>>

\* engine: FT.CREATE installs the definition unless the name is taken, in which
\* case it answers "Index already exists" and changes nothing
EngineCreateFails(name) == check_index_exists(name)
EngineCreate(name, def) ==
    IF EngineCreateFails(name) THEN indexes ELSE [indexes EXCEPT ![name] = def]

\* Mutant of CreatorCreate: the request replaces an index it finds
\* (FT.DROPINDEX, then FT.CREATE).
CreatorCreateReplacing(p) ==
    /\ creators[p].pc = "checked"
    /\ IF creators[p].exists
       THEN /\ creators' = [creators EXCEPT ![p].pc = "returned"]
            /\ UNCHANGED <<indexes, created>>
       ELSE /\ indexes' = [indexes EXCEPT ![index_name] = creators[p].def]
            /\ created' = Append(created, creators[p].def)
            /\ creators' = [creators EXCEPT ![p].pc = "returned"]
    /\ UNCHANGED <<instanceFields, other, vector_schema, store, pc,
                   addLocals, counters, result>>

\* Lines 203-210: nothing is sent when the index was seen; otherwise the create
\* request is sent, and the engine's error is the call's exception.
CreatorCreate(p) ==
    /\ creators[p].pc = "checked"
    /\ IF creators[p].exists
       THEN /\ creators' = [creators EXCEPT ![p].pc = "returned"]
            /\ UNCHANGED <<indexes, created>>
       ELSE /\ indexes' = EngineCreate(index_name, creators[p].def)
            /\ IF EngineCreateFails(index_name)
               THEN /\ creators' = [creators EXCEPT ![p].pc = "raised"]
                    /\ UNCHANGED created
               ELSE /\ creators' = [creators EXCEPT ![p].pc = "returned"]
                    /\ created' = Append(created, creators[p].def)
    /\ UNCHANGED <<instanceFields, other, vector_schema, store, pc,
                   addLocals, counters, result>>

\* --------------------------------------------------------------- add_texts
\* Lines 243-247: the check of metadatas against texts.  The second test
\* (not a list and first entry not a dict) never fires for a list of dicts.
MetadatasRejected(texts, metadatas) ==
    Truthy(metadatas) /\ Len(metadatas.val) # Len(texts)

Cost(n) == n + 1

\* add_texts up to the loop (lines 235-250): validation, a fresh pipeline.
AddTextsCall(n, batch_size, metadatas, embeddings, keys) ==
    /\ pc = "idle"
    /\ work + Cost(n) <= MaxWork
    /\ uuid_ctr + n <= Len(UuidPool)
    /\ call' = [texts |-> Texts(n), metadatas |-> metadatas, embeddings |-> embeddings,
                batch_size |-> batch_size, keys |-> keys]
    /\ work' = work + Cost(n)
    /\ i' = 0
    /\ ids' = <<>>
    /\ pipeline' = <<>>
    /\ flushes' = <<>>
    /\ embedded' = {}
    /\ commits' = <<>>
    /\ IF MetadatasRejected(Texts(n), metadatas)
       THEN /\ pc' = "done"
            /\ result' = [op |-> "add_texts", status |-> "raise", error |-> "ValueError"]
       ELSE /\ pc' = "loop"
            /\ result' = NoResult
    /\ UNCHANGED <<instanceFields, others, vector_schema, indexes, store, uuid_ctr>>

\* if i % batch_size == 0 (line 267); idx is the 0-based index of the item
WriteBatchNow(idx, batch_size) == idx % batch_size = 0

\* Mutant of ResolveKey: the caller's keys are ignored.
ResolveKeyAlwaysGenerated(keys, idx, prefix, n) == RedisKey(prefix, n)

\* key = keys_or_ids[i] if keys_or_ids else _redis_key(prefix) (line 253);
\* n is the number of the uuid drawn if one is drawn
ResolveKey(keys, idx, prefix, n) ==
    IF Truthy(keys) THEN keys.val[idx + 1] ELSE RedisKey(prefix, n)

\* Mutant of AfterFlush: a failed flush is swallowed and the loop goes on.
AfterFlushSwallowed(ok) == "loop"

\* Where add_texts stands after pipeline.execute() in the loop (line 268): an
\* exception of execute() is not caught and ends the call.
AfterFlush(ok) == IF ok THEN "loop" ELSE "done"

\* pipeline.execute() on a pipeline created with transaction=False: the queued
\* commands are sent together.  When the request fails the engine may have
\* executed any prefix of them; nothing is rolled back.  An empty pipeline
\* sends nothing and cannot fail.
Execute(ok, done, final) ==
    /\ done \in 0..Len(pipeline)
    /\ ok => done = Len(pipeline)
    /\ ~ok => Len(pipeline) > 0
    /\ store' = EngineApply(store, SubSeq(pipeline, 1, done))
    /\ commits' = commits \o SubSeq(pipeline, 1, done)
    /\ flushes' = Append(flushes, [size |-> Len(pipeline), final |-> final, ok |-> ok,
                                   items |-> {pipeline[n].item : n \in 1..Len(pipeline)}])
    /\ pipeline' = <<>>

\* One iteration of the loop (lines 251-268) for item i (0-based).
AddTextsItem(ok, done) ==
    /\ pc = "loop"
    /\ i < Len(call.texts)
    /\ LET text == call.texts[i + 1]
           prefix == RedisPrefix(index_name)
           generate == ~Truthy(call.keys)
           embed == ~Truthy(call.embeddings)
       IN IF ~generate /\ i >= Len(call.keys.val)
          THEN \* keys_or_ids[i] is out of range
               /\ ok /\ done = 0
               /\ pc' = "done"
               /\ result' = [op |-> "add_texts", status |-> "raise", error |-> "IndexError"]
               /\ UNCHANGED <<store, i, ids, pipeline, uuid_ctr, flushes, embedded, commits>>
          ELSE LET key == ResolveKey(call.keys, i, prefix, uuid_ctr + 1)
                   metadata == IF Truthy(call.metadatas) THEN call.metadatas.val[i + 1]
                                                         ELSE EmptyDict
                   embedding == IF embed THEN embedding_function(text)
                                         ELSE call.embeddings.val[i + 1]
                   mapping == DictMerge((content_key :> text)
                                          @@ (vector_key :> array_to_buffer(embedding)),
                                        metadata)
                   queued == Append(pipeline, [key |-> key, mapping |-> mapping, item |-> i])
               IN /\ uuid_ctr' = IF generate THEN uuid_ctr + 1 ELSE uuid_ctr
                  /\ embedded' = IF embed THEN embedded \cup {i} ELSE embedded
                  /\ ids' = Append(ids, key)
                  /\ IF WriteBatchNow(i, call.batch_size)
                     THEN /\ done \in 0..Len(queued)
                          /\ ok => done = Len(queued)
                          /\ store' = EngineApply(store, SubSeq(queued, 1, done))
                          /\ commits' = commits \o SubSeq(queued, 1, done)
                          /\ flushes' = Append(flushes,
                                 [size |-> Len(queued), final |-> FALSE, ok |-> ok,
                                  items |-> {queued[n].item : n \in 1..Len(queued)}])
                          /\ pipeline' = <<>>
                          /\ pc' = AfterFlush(ok)
                          /\ IF pc' = "loop"
                             THEN /\ i' = i + 1 /\ result' = NoResult
                             ELSE /\ i' = i
                                  /\ result' = [op |-> "add_texts", status |-> "raise",
                                                error |-> "flush"]
                     ELSE /\ ok /\ done = 0
                          /\ pipeline' = queued
                          /\ pc' = "loop" /\ i' = i + 1 /\ result' = NoResult
                          /\ UNCHANGED <<store, commits, flushes>>
    /\ UNCHANGED <<instanceFields, others, vector_schema, indexes, call, work>>

\* After the loop (lines 270-272): the final execute, then return ids.
AddTextsFinal(ok, done) ==
    /\ pc = "loop"
    /\ i = Len(call.texts)
    /\ Execute(ok, done, TRUE)
    /\ pc' = "done"
    /\ result' = IF ok THEN [op |-> "add_texts", status |-> "return", value |-> ids]
                       ELSE [op |-> "add_texts", status |-> "raise", error |-> "flush"]
    /\ UNCHANGED <<instanceFields, others, vector_schema, indexes, call, i, ids, uuid_ctr,
                   work, embedded>>

\* ------------------------------------------------------- query construction
\* str(meta_filter): the filter-expression module renders a tag filter
FilterStr(f) == <<"@", f.field, ":{", f.value, "}">>
TagFilter == [field |-> "tag", value |-> KeyNamePool[1]]
OptFilters == {Absent, Given(TagFilter)}

ReturnFields == metadata_keys \o <<content_key, "vector_score", "id">>

\* _prepare_vector_query (lines 429-461)
PrepareVectorQuery(k, meta_filter) ==
    LET query_prefix == IF meta_filter.given THEN FilterStr(meta_filter.val) ELSE <<"*">>
    IN [kind |-> "KNN",
        query_string |-> <<"(">> \o query_prefix
                         \o <<")=>[KNN ", ToString(k), " @", vector_key, " $vector AS vector_score]">>,
        filter |-> meta_filter,
        k |-> k,
        return_fields |-> ReturnFields,
        sort_by |-> [field |-> "vector_score", asc |-> TRUE],
        paging |-> Absent,
        dialect |-> 2]

\* _prepare_range_query (lines 404-427)
PrepareRangeQuery(k, meta_filter) ==
    LET base == <<"@", vector_key, ":[VECTOR_RANGE $score_threshold $vector]">>
        base_query == IF meta_filter.given
                      THEN <<"(">> \o base \o <<" ">> \o FilterStr(meta_filter.val) \o <<")">>
                      ELSE base
    IN [kind |-> "RANGE",
        query_string |-> base_query \o <<"=>{$yield_distance_as: vector_score}">>,
        filter |-> meta_filter,
        k |-> k,
        return_fields |-> ReturnFields,
        sort_by |-> [field |-> "vector_score", asc |-> TRUE],
        paging |-> Given(<<0, k>>),
        dialect |-> 2]

\* Lines 298-306: the parameters and the choice of the query kind.
SearchParams(embedding, score_threshold) ==
    IF score_threshold.given
    THEN [vector |-> array_to_buffer(embedding),
          score_threshold |-> <<ToString(score_threshold.val)>>]
    ELSE [vector |-> array_to_buffer(embedding)]

\* Mutant of SearchQuery: "if not score_threshold" takes 0 for absent.
SearchQueryFalsyThreshold(k, meta_filter, score_threshold) ==
    IF ~score_threshold.given \/ score_threshold.val = 0
    THEN PrepareVectorQuery(k, meta_filter)
    ELSE PrepareRangeQuery(k, meta_filter)

SearchQuery(k, meta_filter, score_threshold) ==
    IF ~score_threshold.given
    THEN PrepareVectorQuery(k, meta_filter)
    ELSE PrepareRangeQuery(k, meta_filter)

\* ---------------------------------------------------------- engine: search
\* The engine decodes a float32 blob back into numbers.
RECURSIVE BufferToArray(_)
BufferToArray(b) ==
    IF Len(b) < 4 THEN <<>>
    ELSE <<(IF SubSeq(b, 1, 4) = <<0, 0, 0, 0>> THEN 0 ELSE 1)>>
         \o BufferToArray(SubSeq(b, 5, Len(b)))

RECURSIVE Sum(_, _)
Sum(f, n) == IF n = 0 THEN 0 ELSE f[n] + Sum(f, n - 1)

\* Distance of two unit vectors of one length under the index's metric.
Distance(metric, a, b) ==
    IF metric = "l2"
    THEN Sum([j \in 1..Len(a) |-> (a[j] - b[j]) * (a[j] - b[j])], Len(a))
    ELSE 1 - Sum([j \in 1..Len(a) |-> a[j] * b[j]], Len(a))

IndexVectorField(def) == def.fields[2]
IndexedFieldNames(def) == {def.fields[n].name : n \in 1..Len(def.fields)}

HasPrefix(key, prefix) == Len(key) >= Len(prefix) /\ SubSeq(key, 1, Len(prefix)) = prefix

\* The hashes the index holds a vector for: keys under the index's prefix whose
\* vector field is a blob of the declared dimension.
Indexed(def) ==
    {key \in DOMAIN store :
        /\ HasPrefix(key, def.prefix)
        /\ IndexVectorField(def).name \in DOMAIN store[key]
        /\ Len(store[key][IndexVectorField(def).name]) = 4 * IndexVectorField(def).dims}

MatchesFilter(key, meta_filter) ==
    \/ ~meta_filter.given
    \/ /\ meta_filter.val.field \in DOMAIN store[key]
       /\ store[key][meta_filter.val.field] = meta_filter.val.value

\* The query is rejected when the index is missing, when it names a field the
\* index does not hold, or when the query vector has the wrong length.
SearchFails(name, q, params) ==
    \/ ~check_index_exists(name)
    \/ vector_key # IndexVectorField(indexes[name]).name
    \/ q.filter.given /\ q.filter.val.field \notin IndexedFieldNames(indexes[name])
    \/ Len(params.vector) # 4 * IndexVectorField(indexes[name]).dims

Score(name, key, params) ==
    Distance(IndexVectorField(indexes[name]).distance_metric,
             BufferToArray(store[key][IndexVectorField(indexes[name]).name]),
             BufferToArray(params.vector))

Candidates(name, q, params, score_threshold) ==
    {key \in Indexed(indexes[name]) :
        /\ MatchesFilter(key, q.filter)
        /\ q.kind = "RANGE" => Score(name, key, params) <= score_threshold.val}

Min(a, b) == IF a <= b THEN a ELSE b

\* The orders in which the engine may return the hits: the q.k nearest, by
\* ascending vector_score; hits of equal score come in any order.
EngineOrders(name, q, params, score_threshold) ==
    LET C == Candidates(name, q, params, score_threshold)
        L == Min(q.k, Cardinality(C))
    IN {r \in [1..L -> C] :
          /\ \A a, b \in 1..L : a < b =>
                /\ r[a] # r[b]
                /\ Score(name, r[a], params) <= Score(name, r[b], params)
          /\ \A c \in C \ {r[a] : a \in 1..L} :
                \A a \in 1..L : Score(name, r[a], params) <= Score(name, c, params)}

\* One raw record: the key, and the return fields the hash holds.
EngineRecord(name, q, params, key) ==
    [id |-> key,
     attrs |-> ("vector_score" :> Score(name, key, params))
               @@ [f \in {q.return_fields[n] : n \in 1..Len(q.return_fields)}
                        \cap DOMAIN store[key] |-> store[key][f]]]

\* ------------------------------------------------------ _similarity_search
HasAttr(rec, attr) == attr = "id" \/ attr \in DOMAIN rec.attrs
GetAttr(rec, attr) == IF attr = "id" THEN rec.id ELSE rec.attrs[attr]

\* Lines 315-320: the attributes read from one record
AttrsRead(return_score) ==
    {metadata_keys[n] : n \in 1..Len(metadata_keys)} \cup {"id", "content"}
        \cup (IF return_score THEN {"score"} ELSE {})

\* Lines 315-317: the Document made from one record
ToDocument(rec) ==
    [page_content |-> GetAttr(rec, "content"),
     metadata |-> ("id" :> rec.id)
                  @@ [f \in {metadata_keys[n] : n \in 1..Len(metadata_keys)} |-> GetAttr(rec, f)]]

\* Lines 311-324, on the records the engine returned
\* A list entry is modelled as the tuple of what the list holds for a record:
\* <<document>>, or <<document, score>> for list(zip(docs, scores)).
Translate(records, return_score) ==
    IF return_score
    THEN [n \in 1..Len(records) |-> <<ToDocument(records[n]), GetAttr(records[n], "score")>>]
    ELSE [n \in 1..Len(records) |-> <<ToDocument(records[n])>>]

\* _similarity_search (lines 274-324); r is the order the engine returns
SimilaritySearchImpl(op, query, k, meta_filter, score_threshold, return_score, r) ==
    LET embedding == embedding_function(query)
        params == SearchParams(embedding, score_threshold)
        q == SearchQuery(k, meta_filter, score_threshold)
        args == [query |-> query, k |-> k, meta_filter |-> meta_filter,
                 score_threshold |-> score_threshold]
    IN IF SearchFails(index_name, q, params)
       THEN /\ r = <<>>
            /\ result' = [op |-> op, status |-> "raise", error |-> "ResponseError",
                          args |-> args, redis_query |-> q, params |-> params]
       ELSE /\ r \in EngineOrders(index_name, q, params, score_threshold)
            /\ LET records == [n \in 1..Len(r) |-> EngineRecord(index_name, q, params, r[n])]
               IN IF \E n \in 1..Len(records) :
                        \E a \in AttrsRead(return_score) : ~HasAttr(records[n], a)
                  THEN result' = [op |-> op, status |-> "raise", error |-> "AttributeError",
                                  args |-> args, redis_query |-> q, params |-> params,
                                  records |-> records]
                  ELSE result' = [op |-> op, status |-> "return",
                                  value |-> Translate(records, return_score),
                                  args |-> args, redis_query |-> q, params |-> params,
                                  records |-> records]

\* The keyword arguments a public search method hands to _similarity_search:
\* return_score is the parameter _similarity_search reads; a keyword of another
\* name lands in **kwargs and is ignored.
ReturnScoreArg(kwargs) == IF "return_score" \in DOMAIN kwargs THEN kwargs["return_score"] ELSE FALSE

SearchStep ==
    /\ pc = "idle"
    /\ pc' = "done"
    /\ UNCHANGED <<instanceFields, others, vector_schema, indexes, store, addLocals, counters>>

OrdersBound == UNION {[1..L -> DOMAIN store] : L \in 0..MaxK}

\* similarity_search (lines 377-388)
SimilaritySearchKwargs == [return_scores |-> FALSE]
SimilaritySearch(query, k, meta_filter, r) ==
    /\ SearchStep
    /\ SimilaritySearchImpl("similarity_search", query, k, meta_filter, Absent,
                            ReturnScoreArg(SimilaritySearchKwargs), r)

\* similarity_search_with_score (lines 364-375)
WithScoreKwargs == [return_scores |-> TRUE]
SimilaritySearchWithScore(query, k, meta_filter, r) ==
    /\ SearchStep
    /\ SimilaritySearchImpl("similarity_search_with_score", query, k, meta_filter, Absent,
                            ReturnScoreArg(WithScoreKwargs), r)

\* similarity_search_limit_score (lines 326-362)
LimitScoreKwargs == [return_scores |-> FALSE]
SimilaritySearchLimitScore(query, k, score_threshold, meta_filter, r) ==
    /\ SearchStep
    /\ SimilaritySearchImpl("similarity_search_limit_score", query, k, meta_filter,
                            Given(score_threshold), ReturnScoreArg(LimitScoreKwargs), r)

\* ------------------------------------------------------------------ delete
GhostKey == <<"ghost">>
OptIds == {Absent, Given(<<>>), Given(<<GhostKey>>), Given(<<SuppliedKey(1)>>),
           Given(<<SuppliedKey(2)>>), Given(<<RedisKey(RedisPrefix("idx"), 1)>>),
           Given(<<SuppliedKey(1), GhostKey>>)}

\* DEL key [key ...]: removes the keys that exist and answers their number; it
\* is an error only with no key at all, or when the request itself fails.
EngineDelFails(keys, remote_ok) == ~remote_ok \/ Len(keys) = 0
EngineDel(st, keys) ==
    [k \in DOMAIN st \ {keys[n] : n \in 1..Len(keys)} |-> st[k]]

\* What the try block of delete (lines 609-615) returns.
DeleteValue(failed) == IF failed THEN FALSE ELSE TRUE

\* Redis.delete (lines 574-615)
Delete(ids_arg, client_ok, remote_ok) ==
    /\ pc = "idle"
    /\ pc' = "done"
    /\ IF ~ids_arg.given
       THEN /\ client_ok /\ remote_ok
            /\ result' = [op |-> "delete", status |-> "raise", error |-> "ValueError",
                          client |-> FALSE]
            /\ UNCHANGED store
       ELSE IF ~client_ok
       THEN /\ remote_ok
            /\ result' = [op |-> "delete", status |-> "raise", error |-> "ValueError",
                          client |-> FALSE]
            /\ UNCHANGED store
       ELSE LET failed == EngineDelFails(ids_arg.val, remote_ok)
            IN /\ store' = IF failed THEN store ELSE EngineDel(store, ids_arg.val)
               /\ result' = [op |-> "delete", status |-> "return",
                             value |-> DeleteValue(failed),
                             client |-> TRUE,
                             remote_ok |-> remote_ok,
                             ids |-> ids_arg.val,
                             found |-> {ids_arg.val[n] : n \in 1..Len(ids_arg.val)}
                                          \cap DOMAIN store]
    /\ UNCHANGED <<instanceFields, others, vector_schema, indexes, addLocals, counters>>

\* -------------------------------------------------------------- drop_index
\* FT.DROPINDEX name [DD]: an error when no such index exists
EngineDropFails(name, remote_ok) == ~remote_ok \/ ~check_index_exists(name)

\* Mutant of DropValue: the except branch is missing.
DropValueAlwaysTrue(failed) == TRUE

\* What the try block of drop_index (lines 650-656) returns.
DropValue(failed) == IF failed THEN FALSE ELSE TRUE

\* Redis.drop_index (lines 617-656)
DropIndex(name, delete_documents, client_ok, remote_ok) ==
    /\ pc = "idle"
    /\ pc' = "done"
    /\ IF ~client_ok
       THEN /\ remote_ok
            /\ result' = [op |-> "drop_index", status |-> "raise", error |-> "ValueError",
                          client |-> FALSE]
            /\ UNCHANGED <<indexes, store>>
       ELSE LET failed == EngineDropFails(name, remote_ok)
            IN /\ indexes' = IF failed THEN indexes ELSE [indexes EXCEPT ![name] = NoIndex]
               /\ store' = IF failed \/ ~delete_documents THEN store
                           ELSE [k \in {key \in DOMAIN store :
                                            ~HasPrefix(key, indexes[name].prefix)} |-> store[k]]
               /\ result' = [op |-> "drop_index", status |-> "return",
                             value |-> DropValue(failed),
                             client |-> TRUE,
                             remote_ok |-> remote_ok,
                             name |-> name,
                             existed |-> check_index_exists(name)]
    /\ UNCHANGED <<instanceFields, others, vector_schema, addLocals, counters>>

Next ==
    \/ \E dim \in Dims : CreateIndex(dim)
    \/ \E n \in 0..MaxWork, batch_size \in BatchSizes :
          \E metadatas \in OptMetadatas(n), embeddings \in OptEmbeddings(n),
             keys \in OptKeys(n) :
              AddTextsCall(n, batch_size, metadatas, embeddings, keys)
    \/ \E ok \in BOOLEAN, done \in 0..MaxWork : AddTextsItem(ok, done)
    \/ \E ok \in BOOLEAN, done \in 0..MaxWork : AddTextsFinal(ok, done)
    \/ \E query \in QueryTexts, k \in 0..MaxK, meta_filter \in OptFilters, r \in OrdersBound :
          SimilaritySearch(query, k, meta_filter, r)
    \/ \E query \in QueryTexts, k \in 0..MaxK, meta_filter \in OptFilters, r \in OrdersBound :
          SimilaritySearchWithScore(query, k, meta_filter, r)
    \/ \E query \in QueryTexts, k \in 0..MaxK, meta_filter \in OptFilters, r \in OrdersBound :
          \E score_threshold \in Thresholds :
              SimilaritySearchLimitScore(query, k, score_threshold, meta_filter, r)
    \/ \E ids_arg \in OptIds, client_ok \in BOOLEAN, remote_ok \in BOOLEAN :
          Delete(ids_arg, client_ok, remote_ok)
    \/ \E name \in IndexNames, delete_documents \in BOOLEAN, client_ok \in BOOLEAN,
          remote_ok \in BOOLEAN :
          DropIndex(name, delete_documents, client_ok, remote_ok)
    \/ NextCall

Spec == Init /\ [][Next]_vars

\* The concurrent creators alone, on an engine that holds no index yet.
NextCreators ==
    \/ \E p \in Creators, dim \in Dims : CreatorBuild(p, dim)
    \/ \E p \in Creators : CreatorCheck(p)
    \/ \E p \in Creators : CreatorCreate(p)

SpecCreators == Init /\ [][NextCreators]_vars

\* Two instances in one process: constructions of the second one and index
\* creation through either.
NextInstances ==
    \/ \E arg \in OtherSchemas : ConstructOther(arg)
    \/ \E dim \in Dims : OtherCreateIndex(dim)
    \/ \E dim \in Dims : CreateIndex(dim)
    \/ NextCall

SpecInstances == Init /\ [][NextInstances]_vars

\* ===================================================================== claims
AddTextsReturned == pc = "done" /\ result.op = "add_texts" /\ result.status = "return"
Range(seq) == {seq[n] : n \in 1..Len(seq)}

\* C1: batching policy of add_texts: every flush before the final one carries
\* exactly batch_size queued writes, and the final flush carries the remaining
\* (number of texts mod batch_size) writes.
C1_FlushEveryBatchSize ==
    AddTextsReturned =>
        \A f \in 1..Len(flushes) :
            IF flushes[f].final
            THEN flushes[f].size = Len(call.texts) % call.batch_size
            ELSE flushes[f].size = call.batch_size

\* C2: batch completeness: when add_texts returns, the returned list is as long
\* as the texts, and its entry for each text is the key that text was written
\* under: the caller's key when keys are supplied, otherwise a generated key
\* doc:<index_name>:<uuid>; in input order.
C2_BatchCompleteness ==
    AddTextsReturned =>
        /\ Len(result.value) = Len(call.texts)
        /\ \A n \in 1..Len(call.texts) :
              /\ \E c \in 1..Len(commits) :
                    /\ commits[c].item = n - 1
                    /\ commits[c].key = result.value[n]
                    /\ commits[c].mapping[content_key] = call.texts[n]
              /\ result.value[n] \in DOMAIN store
              /\ IF Truthy(call.keys)
                 THEN result.value[n] = call.keys.val[n]
                 ELSE /\ Len(result.value[n]) = 3
                      /\ SubSeq(result.value[n], 1, 2) = <<"doc", index_name>>
                      /\ result.value[n][3] \in Range(UuidPool)

\* C2 witness: a call with two texts and caller-supplied keys has returned.
C2_Witness ==
    AddTextsReturned /\ Len(call.texts) = 2 /\ Truthy(call.keys)

\* C3: metadata length validation: whenever metadatas is given (any list, the
\* empty one included) and its length differs from the number of texts,
\* add_texts fails with a validation error and nothing is queued, flushed or
\* written.
C3_MetadataLengthValidated ==
    (pc = "done" /\ result.op = "add_texts" /\ call.metadatas.given
        /\ Len(call.metadatas.val) # Len(call.texts)) =>
        /\ pc = "done"
        /\ result.status = "raise"
        /\ result.error = "ValueError"
        /\ ids = <<>> /\ pipeline = <<>> /\ flushes = <<>> /\ commits = <<>>

\* C4: flush failure: a flush that fails is the last thing the call does and the
\* call ends with that error, returning no key list; every item of the flushes
\* before it is committed in the engine; and no item after the ones of the
\* failing flush is embedded, queued or written.
ItemsUpTo(f) == UNION {flushes[g].items : g \in 1..f}
C4_FlushFailureAborts ==
    \A f \in 1..Len(flushes) :
        ~flushes[f].ok =>
            /\ f = Len(flushes)
            /\ pc = "done"
            /\ result.op = "add_texts" /\ result.status = "raise" /\ result.error = "flush"
            /\ \A item \in ItemsUpTo(f - 1) :
                  /\ \E c \in 1..Len(commits) : commits[c].item = item
                  /\ ids[item + 1] \in DOMAIN store
                  /\ store[ids[item + 1]][content_key] = call.texts[item + 1]
            /\ \A item \in 0..(Len(call.texts) - 1) \ ItemsUpTo(f) :
                  /\ item \notin embedded
                  /\ \A c \in 1..Len(commits) : commits[c].item # item
                  /\ \A c \in 1..Len(pipeline) : pipeline[c].item # item
                  /\ Len(ids) <= item

\* C4 witness: the second flush of a call failed, after a first flush that
\* carried a write.
C4_Witness ==
    /\ pc = "done"
    /\ Len(flushes) = 2
    /\ ~flushes[2].ok
    /\ flushes[1].size > 0

\* C5: _create_index on a name whose index exists is a no-op: no error, no
\* index-creation request, the index keeps its definition, and the declared
\* schema (its dimension in particular) is unchanged.
C5_CreateIndexIdempotent ==
    [][((\E dim \in Dims : CreateIndex(dim)) /\ check_index_exists(index_name)) =>
          /\ result'.status = "return"
          /\ ~result'.issued
          /\ indexes' = indexes
          /\ vector_schema' = vector_schema]_vars

\* C6: dimension invariant: every document add_texts has written when it
\* returns carries one vector whose length is the dimension the index was
\* created with (float32: four bytes an element); a write of another length is
\* rejected, not stored.
C6_WrittenVectorsHaveDeclaredDimension ==
    (AddTextsReturned /\ check_index_exists(index_name)
        /\ vector_key = IndexVectorField(indexes[index_name]).name) =>
        \A c \in 1..Len(commits) :
            /\ vector_key \in DOMAIN commits[c].mapping
            /\ Len(commits[c].mapping[vector_key])
                  = 4 * IndexVectorField(indexes[index_name]).dims

SearchOps == {"similarity_search", "similarity_search_with_score",
              "similarity_search_limit_score"}
SearchDone == pc = "done" /\ result.op \in SearchOps

\* C7: query mode selection: a KNN query (<filter or *>)=>[KNN k @<vector_key>
\* $vector AS vector_score], without page and without score_threshold parameter,
\* exactly when score_threshold is absent; a range query on
\* @<vector_key>:[VECTOR_RANGE $score_threshold $vector], wrapped in a
\* parenthesized conjunction with the filter iff a filter is given, with page
\* [0, k] and the score_threshold parameter, exactly when it is present (0
\* included); both project the metadata fields, content, vector_score and id,
\* and sort ascending by vector_score.
C7_ExpectedFilter == IF result.args.meta_filter.given
                     THEN <<"@", result.args.meta_filter.val.field, ":{",
                            result.args.meta_filter.val.value, "}">>
                     ELSE <<"*">>
C7_ExpectedRange == <<"@", vector_key, ":[VECTOR_RANGE $score_threshold $vector]">>
C7_QueryModeSelection ==
    SearchDone =>
        /\ result.redis_query.return_fields
              = metadata_keys \o <<content_key, "vector_score", "id">>
        /\ result.redis_query.sort_by = [field |-> "vector_score", asc |-> TRUE]
        /\ IF ~result.args.score_threshold.given
           THEN /\ result.redis_query.query_string
                     = <<"(">> \o C7_ExpectedFilter
                       \o <<")=>[KNN ", ToString(result.args.k), " @", vector_key,
                            " $vector AS vector_score]">>
                /\ ~result.redis_query.paging.given
                /\ DOMAIN result.params = {"vector"}
           ELSE /\ result.redis_query.query_string
                     = (IF result.args.meta_filter.given
                        THEN <<"(">> \o C7_ExpectedRange \o <<" ">> \o C7_ExpectedFilter
                             \o <<")">>
                        ELSE C7_ExpectedRange)
                       \o <<"=>{$yield_distance_as: vector_score}">>
                /\ result.redis_query.paging = Given(<<0, result.args.k>>)
                /\ DOMAIN result.params = {"vector", "score_threshold"}
                /\ result.params.score_threshold
                      = <<ToString(result.args.score_threshold.val)>>

\* C7 witness: a range search with threshold 0 has been run and has returned a
\* record.
C7_Witness ==
    /\ SearchDone
    /\ result.args.score_threshold = Given(0)
    /\ result.status = "return"
    /\ Len(result.records) > 0

\* C8: similarity_search_with_score returns, for every record the engine
\* returned and in the engine's order, the pair of the document and that
\* record's distance score.
C8_WithScoreReturnsPairs ==
    (pc = "done" /\ result.op = "similarity_search_with_score"
        /\ result.status = "return") =>
        /\ Len(result.value) = Len(result.records)
        /\ \A n \in 1..Len(result.records) :
              /\ Len(result.value[n]) = 2
              /\ result.value[n][1].metadata["id"] = result.records[n].id
              /\ result.value[n][2] = result.records[n].attrs["vector_score"]

\* C9: delete of absent keys: delete(ids) with keys none of which exists returns
\* false and raises nothing.
C9_DeleteAbsentReturnsFalse ==
    (pc = "done" /\ result.op = "delete" /\ result.client
        /\ Len(result.ids) > 0 /\ result.found = {}) =>
        /\ result.status = "return"
        /\ result.value = FALSE

\* C10: best-effort drop and delete: once a client is obtained no exception
\* reaches the caller; the result is true exactly when the remote request
\* succeeded, so any failure of it (an index that does not exist included) is
\* reported as false.
C10_BestEffortBoolean ==
    (pc = "done" /\ result.op \in {"delete", "drop_index"} /\ result.client) =>
        /\ result.status = "return"
        /\ result.op = "drop_index" =>
              (result.value = TRUE <=> (result.remote_ok /\ result.existed))
        /\ result.op = "delete" =>
              (result.value = TRUE <=> (result.remote_ok /\ Len(result.ids) > 0))

\* C10 witness: drop_index of an index that does not exist has answered false.
C10_Witness ==
    /\ pc = "done"
    /\ result.op = "drop_index"
    /\ result.client
    /\ result.remote_ok
    /\ result.name = "nonexistent"
    /\ result.value = FALSE

\* C11: round trip of a document through add_texts and a KNN search: after a
\* similarity_search with k >= 1 and no filter on an index of the query
\* vector's dimension, every stored document whose vector is identical to the
\* query vector (and is the only one with that vector) is among the returned
\* documents, with the written text as its content and the written metadata
\* in its metadata.
C11_WrittenMetadata(key) == DOMAIN store[key] \ {content_key, vector_key}
C11_IdenticalVector(key) ==
    /\ vector_key \in DOMAIN store[key]
    /\ content_key \in DOMAIN store[key]
    /\ store[key][vector_key] = result.params.vector
    /\ \A key2 \in DOMAIN store \ {key} :
          vector_key \in DOMAIN store[key2]
              => store[key2][vector_key] # result.params.vector
C11_KnnSearchDone ==
    /\ pc = "done"
    /\ result.op = "similarity_search"
    /\ result.args.k >= 1
    /\ ~result.args.meta_filter.given
    /\ check_index_exists(index_name)
    /\ Len(result.params.vector) = 4 * IndexVectorField(indexes[index_name]).dims
C11_RoundTrip ==
    C11_KnnSearchDone =>
        \A key \in DOMAIN store :
            C11_IdenticalVector(key) =>
                /\ result.status = "return"
                /\ \E n \in 1..Len(result.value) :
                      LET doc == result.value[n][1]
                      IN /\ doc.page_content = store[key][content_key]
                         /\ \A f \in C11_WrittenMetadata(key) :
                               /\ f \in DOMAIN doc.metadata
                               /\ doc.metadata[f] = store[key][f]

\* C12: clients that run _create_index concurrently for one index name: in
\* every interleaving the engine installs at most one definition for the name,
\* the index keeps the definition of the first successful create, and once all
\* clients have finished the index exists.
C12_Finished(p) == creators[p].pc \in {"returned", "raised"}
C12_ConcurrentCreators ==
    /\ Len(created) <= 1
    /\ Len(created) = 1 => indexes[index_name] = created[1]
    /\ Len(created) = 0 => ~check_index_exists(index_name)
    /\ (\A p \in Creators : C12_Finished(p)) => Len(created) = 1
\* the race: all clients saw no index, one created it, another's create was
\* refused, and the refused definition differs from the installed one
C12_Witness ==
    /\ \A p \in Creators : C12_Finished(p) /\ ~creators[p].exists
    /\ \E p, q \in Creators :
          /\ creators[p].pc = "returned"
          /\ creators[q].pc = "raised"
          /\ creators[q].def # creators[p].def
          /\ indexes[index_name] = creators[p].def

\* C13: result translation: when a search got raw records from the engine and
\* every record holds the declared metadata fields and the content field, the
\* search returns one document a record, whose metadata is exactly the declared
\* metadata fields with the record's values plus "id" with the record's key,
\* and whose content is the record's field named by content_key.
C13_Declared == {metadata_keys[n] : n \in 1..Len(metadata_keys)}
C13_RecordsComplete ==
    /\ SearchDone
    /\ "records" \in DOMAIN result
    /\ \A n \in 1..Len(result.records) :
          C13_Declared \cup {content_key} \subseteq DOMAIN result.records[n].attrs
C13_ResultTranslation ==
    C13_RecordsComplete =>
        /\ result.status = "return"
        /\ Len(result.value) = Len(result.records)
        /\ \A n \in 1..Len(result.records) :
              LET rec == result.records[n]
                  doc == result.value[n][1]
              IN /\ doc.page_content = rec.attrs[content_key]
                 /\ DOMAIN doc.metadata = C13_Declared \cup {"id"}
                 /\ doc.metadata["id"] = rec.id
                 /\ \A f \in C13_Declared : doc.metadata[f] = rec.attrs[f]

\* C14: instance isolation of the vector schema: after construction the schema
\* the instance holds changes only in the instance's own _create_index, and the
\* index the instance creates carries the metric its relevance score function
\* was selected for.
C14_OwnCreateIndex == pc = "idle" /\ pc' = "done" /\ result'.op = "create_index"
C14_SchemaIsolated ==
    [][/\ vector_schema' # vector_schema => C14_OwnCreateIndex
       /\ (C14_OwnCreateIndex /\ result'.issued) =>
             SelectRelevanceScoreFn(Upper(
                 IndexVectorField(indexes'[index_name]).distance_metric))
                   = SelectRelevanceScoreFn(distance_metric)]_vars
====
